---- MODULE Spec2Model ----
(***************************************************************************)
(* NextTrack: the MusicBrainz search client (api/musicbrainz.py) and the   *)
(* top-5 recommendation handler RecommendTopView.post (api/views.py).      *)
(*                                                                         *)
(* Text is modelled as a sequence of one-character strings, so that        *)
(* lower(), strip(), substring tests and string formatting are computed    *)
(* character by character.  Python's None and "" are both the empty        *)
(* sequence wherever the code reads the value through `x or ""` or tests   *)
(* its truthiness, which is everywhere the model reads one.                *)
(***************************************************************************)
EXTENDS Integers, Sequences, FiniteSets, TLC

VARIABLES
    cache,       \* django.core.cache: key -> [value, expires]
    now,         \* wall clock, in seconds
    ticks,       \* number of clock advances so far
    ncalls,      \* number of direct calls of the search client so far
    written,     \* history: per call parameters, the last result written to the cache
    lastCall,    \* the most recent direct call of the search client
    mbCall,      \* the most recent direct call of _mb_get
    scoreCall,   \* the most recent direct call of score
    seedCall,    \* the most recent direct call of seed resolution, with the index's answer
    pc,          \* position of the handler RecommendTopView.post
    req,         \* the validated request
    world,       \* what the external index holds for this request's queries
    seed_rec,    \* result of seed resolution: <<>> (None) or <<dict>>
    results,     \* raw candidates
    ranked,      \* candidates sorted by score
    pool,        \* the candidate pool
    poolIdx,     \* history: for each pool entry, its position in ranked
    nPrimary,    \* history: number of pool entries accepted by the primary pass
    seen_titles, \* normalized titles accepted so far
    artist_count,
    album_count,
    idx,         \* loop position in ranked (primary pass, then relaxation pass)
    calls,       \* history: search functions the handler has called, in order
    fbOffset,    \* the pagination offset of the fallback query, -1 if none
    response     \* the handler's outcome

clientVars == <<cache, now, ticks, ncalls, written, lastCall>>
handlerVars == <<pc, req, world, seed_rec, results, ranked, pool, poolIdx, nPrimary,
                 seen_titles, artist_count, album_count, idx, calls, fbOffset, response>>
vars == <<cache, now, ticks, ncalls, written, lastCall, mbCall, scoreCall, seedCall,
          pc, req, world,
          seed_rec, results, ranked, pool, poolIdx, nPrimary, seen_titles,
          artist_count, album_count, idx, calls, fbOffset, response>>

----------------------------------------------------------------------------
(* Text helpers: str.lower, str.strip, substring test, decimal formatting. *)

UpperChars == <<"A","B","C","D","E","F","G","H","I","J","K","L","M",
                "N","O","P","Q","R","S","T","U","V","W","X","Y","Z">>
LowerChars == <<"a","b","c","d","e","f","g","h","i","j","k","l","m",
                "n","o","p","q","r","s","t","u","v","w","x","y","z">>

LowerChar(c) ==
    IF \E i \in 1..Len(UpperChars) : UpperChars[i] = c
    THEN LowerChars[CHOOSE i \in 1..Len(UpperChars) : UpperChars[i] = c]
    ELSE c

Lower(s) == [i \in 1..Len(s) |-> LowerChar(s[i])]

IsSpace(c) == c \in {" ", "\t", "\n"}

RECURSIVE LStrip(_)
LStrip(s) == IF s # <<>> /\ IsSpace(Head(s)) THEN LStrip(Tail(s)) ELSE s

RECURSIVE RStrip(_)
RStrip(s) ==
    IF s # <<>> /\ IsSpace(s[Len(s)]) THEN RStrip(SubSeq(s, 1, Len(s) - 1)) ELSE s

Strip(s) == RStrip(LStrip(s))

\* Python's `sub in s` on strings
Contains(s, sub) ==
    \E i \in 0..(Len(s) - Len(sub)) : SubSeq(s, i + 1, i + Len(sub)) = sub

\* Python's `x in list`
InList(x, l) == \E i \in 1..Len(l) : l[i] = x

Digits == <<"0","1","2","3","4","5","6","7","8","9">>

RECURSIVE FormatNat(_)
FormatNat(n) ==
    IF n < 10 THEN <<Digits[n + 1]>>
    ELSE FormatNat(n \div 10) \o <<Digits[(n % 10) + 1]>>

\* str(n) for an int
FormatInt(n) == IF n < 0 THEN <<"-">> \o FormatNat(0 - n) ELSE FormatNat(n)

----------------------------------------------------------------------------
(* api/musicbrainz.py                                                      *)

CACHE_TTL == 900
RETRIES == 2

\* hashlib.md5(...).hexdigest() as an uninterpreted injective digest: two keys
\* are equal exactly when prefix and raw string are equal.
HashKey(prefix, raw) == [prefix |-> prefix, digest |-> raw]

EscapeChar(c) ==
    IF c = "\\" THEN <<"\\", "\\">>
    ELSE IF c = "\"" THEN <<"\\", "\"">>
    ELSE <<c>>

RECURSIVE EscapeLucene(_)
EscapeLucene(value) ==
    IF value = <<>> THEN <<>>
    ELSE EscapeChar(Head(value)) \o EscapeLucene(Tail(value))

\* rec.get("artist-credit", [{}])[0].get("name") or "", stripped
ArtistName(rec) == Strip(rec.name)

\* artist-credit[0].artist.id or "", stripped
ArtistMbid(rec) == Strip(rec.arid)

\* a variant that keeps the first error instead of the last
RECURSIVE MbGetLoop_FirstErr(_, _, _)
MbGetLoop_FirstErr(outs, i, last_err) ==
    IF i > RETRIES + 1
    THEN [kind |-> "raise", payload |-> <<>>, err |-> last_err, attempts |-> i - 1]
    ELSE IF outs[i].ok
         THEN [kind |-> "return", payload |-> outs[i].payload, err |-> 0,
               attempts |-> i]
         ELSE MbGetLoop_FirstErr(outs, i + 1, IF last_err = 0 THEN outs[i].err
                                              ELSE last_err)

\* One call of _mb_get against an index that answers the i-th attempt with
\* outs[i]: [ok, payload, err].  kind is "return" or "raise".
RECURSIVE MbGetLoop(_, _, _)
MbGetLoop(outs, i, last_err) ==
    IF i > RETRIES + 1
    THEN [kind |-> "raise", payload |-> <<>>, err |-> last_err, attempts |-> i - 1]
    ELSE IF outs[i].ok
         THEN [kind |-> "return", payload |-> outs[i].payload, err |-> 0,
               attempts |-> i]
         ELSE MbGetLoop(outs, i + 1, outs[i].err)

MbGet(outs) == MbGetLoop(outs, 1, 0)

\* cache.get(key): <<>> for a miss or an expired entry, else <<value>>
CacheGet(c, key, t) ==
    IF key \in DOMAIN c /\ t < c[key].expires THEN <<c[key].value>> ELSE <<>>

\* cache.set(key, value, timeout)
CacheSet(c, key, value, t, timeout) ==
    [k \in (DOMAIN c) \cup {key} |->
        IF k = key THEN [value |-> value, expires |-> t + timeout] ELSE c[k]]

\* A cached value is a dict (seed resolution) or a list (recordings search).
DictValue(d) == [isList |-> FALSE, dict |-> <<d>>, list |-> <<>>]
ListValue(l) == [isList |-> TRUE, dict |-> <<>>, list |-> l]

\* `if cached:` - None and the empty list are falsy, a non-empty dict is truthy
Truthy(cached) ==
    /\ cached # <<>>
    /\ (cached[1].isList => cached[1].list # <<>>)

SeedKeyRaw(raw_title, raw_artist) == Lower(raw_title) \o <<"|">> \o Lower(raw_artist)

Q_recording == <<"r","e","c","o","r","d","i","n","g",":","\"">>
Q_and_artist == <<"\""," ","A","N","D"," ","a","r","t","i","s","t",":","\"">>
Q_quote == <<"\"">>

\* the Lucene query of seed resolution
SeedQuery(raw_title, raw_artist) ==
    IF raw_artist # <<>>
    THEN Q_recording \o EscapeLucene(raw_title) \o Q_and_artist
         \o EscapeLucene(raw_artist) \o Q_quote
    ELSE Q_recording \o EscapeLucene(raw_title) \o Q_quote

\* [r for r in recs if pred]
RECURSIVE FilterArtist(_, _)
FilterArtist(recs, raw_artist) ==
    IF recs = <<>> THEN <<>>
    ELSE IF Lower(ArtistName(Head(recs))) = Lower(raw_artist)
         THEN <<Head(recs)>> \o FilterArtist(Tail(recs), raw_artist)
         ELSE FilterArtist(Tail(recs), raw_artist)

\* a variant that keeps the last record with the greatest key
RECURSIVE MaxReleases_LastWins(_, _)
MaxReleases_LastWins(recs, best) ==
    IF recs = <<>> THEN best
    ELSE IF Head(recs).releases >= best.releases
         THEN MaxReleases_LastWins(Tail(recs), Head(recs))
         ELSE MaxReleases_LastWins(Tail(recs), best)

\* max(recs, key=release_count): the first record with the greatest key
RECURSIVE MaxReleases(_, _)
MaxReleases(recs, best) ==
    IF recs = <<>> THEN best
    ELSE IF Head(recs).releases > best.releases
         THEN MaxReleases(Tail(recs), Head(recs))
         ELSE MaxReleases(Tail(recs), best)

UnknownArtist == <<"U","n","k","n","o","w","n"," ","A","r","t","i","s","t">>

OrElse(s, dflt) == IF s # <<>> THEN s ELSE dflt

SeedResult(best) ==
    [title |-> best.title,
     artist |-> OrElse(ArtistName(best), UnknownArtist),
     artist_mbid |-> ArtistMbid(best),
     track_id |-> best.id,
     rg |-> best.rg]

\* What a search function hands back: its return value, the cache afterwards,
\* the number of HTTP requests it made, the query it sent (<<>> if none), the
\* cache key it used, whether it wrote the cache, whether its fetch failed (the
\* except clause ran) and whether an exception left the function (the except
\* clause catches every RequestException _mb_get raises, so none does).
SearchOut(result, c, n, q, key, wrote, failed) ==
    [result |-> result, cache |-> c, requests |-> n, query |-> q, key |-> key,
     wrote |-> wrote, failed |-> failed, raised |-> FALSE]

NoKey == HashKey("", <<>>)

\* a variant of the except clause that lets the exception leave the function
OnRequestException_Propagate(c, n, q, key) ==
    [result |-> <<>>, cache |-> c, requests |-> n, query |-> q, key |-> key,
     wrote |-> FALSE, failed |-> TRUE, raised |-> TRUE]

\* except requests.RequestException: return None (or [])
OnRequestException(c, n, q, key) == SearchOut(<<>>, c, n, q, key, FALSE, TRUE)

\* search_musicbrainz_track; result is <<>> (None) or <<dict>>
SearchTrack(track_name, artist_hint, c, t, outs) ==
    IF track_name = <<>> THEN SearchOut(<<>>, c, 0, <<>>, NoKey, FALSE, FALSE)
    ELSE
    LET raw_title == Strip(track_name)
        raw_artist == Strip(artist_hint)
        cache_key == HashKey("mbz:first", SeedKeyRaw(raw_title, raw_artist))
        cached == CacheGet(c, cache_key, t)
        q == SeedQuery(raw_title, raw_artist)
        r == MbGet(outs)
        cand == FilterArtist(r.payload, raw_artist)
        recs == IF raw_artist # <<>> /\ cand # <<>> THEN cand ELSE r.payload
        best == MaxReleases(Tail(recs), Head(recs))
        result == SeedResult(best)
    IN  IF Truthy(cached)
        THEN SearchOut(cached[1].dict, c, 0, <<>>, cache_key, FALSE, FALSE)
        ELSE IF r.kind = "raise"
        THEN OnRequestException(c, r.attempts, q, cache_key)
        ELSE IF r.payload = <<>>
        THEN SearchOut(<<>>, c, r.attempts, q, cache_key, FALSE, FALSE)
        ELSE SearchOut(<<result>>,
                       CacheSet(c, cache_key, DictValue(result), t, CACHE_TTL),
                       r.attempts, q, cache_key, TRUE, FALSE)

RecsKeyRaw(query, limit, offset) ==
    FormatInt(limit) \o <<":">> \o FormatInt(offset) \o <<":">> \o query

\* search_musicbrainz_recordings; result is a list of recordings
SearchRecordings(query, limit, offset, c, t, outs) ==
    IF query = <<>> THEN SearchOut(<<>>, c, 0, <<>>, NoKey, FALSE, FALSE)
    ELSE
    LET cache_key == HashKey("mbz:recs", RecsKeyRaw(query, limit, offset))
        cached == CacheGet(c, cache_key, t)
        r == MbGet(outs)
    IN  IF Truthy(cached)
        THEN SearchOut(cached[1].list, c, 0, <<>>, cache_key, FALSE, FALSE)
        ELSE IF r.kind = "raise"
        THEN OnRequestException(c, r.attempts, query, cache_key)
        ELSE SearchOut(r.payload,
                       CacheSet(c, cache_key, ListValue(r.payload), t, CACHE_TTL),
                       r.attempts, query, cache_key, TRUE, FALSE)

Q_artist == <<"a","r","t","i","s","t",":","\"">>
Q_arid == <<"a","r","i","d",":">>
Q_and_not_recording ==
    <<" ","A","N","D"," ","N","O","T"," ","r","e","c","o","r","d","i","n","g",":","\"">>

ExcludeClause(exclude_title) ==
    IF exclude_title # <<>>
    THEN Q_and_not_recording \o EscapeLucene(exclude_title) \o Q_quote
    ELSE <<>>

\* search_recordings_by_artist
SearchByArtist(artist_name, exclude_title, limit, c, t, outs) ==
    IF artist_name = <<>> THEN SearchOut(<<>>, c, 0, <<>>, NoKey, FALSE, FALSE)
    ELSE SearchRecordings(
            Q_artist \o EscapeLucene(artist_name) \o Q_quote \o ExcludeClause(exclude_title),
            limit, 0, c, t, outs)

\* search_recordings_by_artist_mbid
SearchByArtistMbid(artist_mbid, exclude_title, limit, c, t, outs) ==
    IF artist_mbid = <<>> THEN SearchOut(<<>>, c, 0, <<>>, NoKey, FALSE, FALSE)
    ELSE SearchRecordings(
            Q_arid \o EscapeLucene(artist_mbid) \o ExcludeClause(exclude_title),
            limit, 0, c, t, outs)

----------------------------------------------------------------------------
(* api/views.py                                                            *)

G_pop == <<"p","o","p">>
G_dance == <<"d","a","n","c","e">>
G_electronic == <<"e","l","e","c","t","r","o","n","i","c">>
G_funk == <<"f","u","n","k">>
G_acoustic == <<"a","c","o","u","s","t","i","c">>
G_indie == <<"i","n","d","i","e">>
G_piano == <<"p","i","a","n","o">>
G_alternative == <<"a","l","t","e","r","n","a","t","i","v","e">>
G_rock == <<"r","o","c","k">>
G_metal == <<"m","e","t","a","l">>
G_punk == <<"p","u","n","k">>
G_trap == <<"t","r","a","p">>
G_lofi == <<"l","o","-","f","i">>
G_ambient == <<"a","m","b","i","e","n","t">>
G_jazz == <<"j","a","z","z">>
G_rnb == <<"r","&","b">>
G_soul == <<"s","o","u","l">>
G_ballad == <<"b","a","l","l","a","d">>
G_edm == <<"e","d","m">>
G_hiphop == <<"h","i","p","-","h","o","p">>

M_happy == <<"h","a","p","p","y">>
M_sad == <<"s","a","d">>
M_angry == <<"a","n","g","r","y">>
M_chill == <<"c","h","i","l","l">>
M_romantic == <<"r","o","m","a","n","t","i","c">>
M_energetic == <<"e","n","e","r","g","e","t","i","c">>

\* MOOD_GENRE_MAP.get(mood, [])
MoodGenreMap(mood) ==
    IF mood = M_happy THEN <<G_pop, G_dance, G_electronic, G_funk>>
    ELSE IF mood = M_sad THEN <<G_acoustic, G_indie, G_piano, G_alternative>>
    ELSE IF mood = M_angry THEN <<G_rock, G_metal, G_punk, G_trap>>
    ELSE IF mood = M_chill THEN <<G_lofi, G_ambient, G_jazz, G_rnb>>
    ELSE IF mood = M_romantic THEN <<G_rnb, G_soul, G_ballad, G_pop>>
    ELSE IF mood = M_energetic THEN <<G_edm, G_hiphop, G_pop, G_trap>>
    ELSE <<>>

POOL_CAP == 30
TOP_N == 5
PER_ARTIST == 2
PER_ALBUM == 2
SHUFFLE_WINDOW == 10
FETCH_LIMIT == 50
FALLBACK_BELOW == 10
MAX_OFFSET == 200

\* the request's preferences as the handler reads them
Mood(r) == Lower(r.mood)
GenreHint(r) == Lower(r.genre)
ArtistHint(r) == Strip(r.artist)

\* tags = [t.get("name", "").lower() for t in rec.get("tags", [])]
LowerAll(tags) == [i \in 1..Len(tags) |-> Lower(tags[i])]

\* a variant without the break: +2 for every mood genre among the tags
MoodBonus_PerGenre(genre_prefs, tags) ==
    2 * Cardinality({i \in 1..Len(genre_prefs) : InList(genre_prefs[i], tags)})

\* for g in genre_prefs: if g in tags: s += 2; break
MoodBonus(genre_prefs, tags) ==
    IF \E i \in 1..Len(genre_prefs) : InList(genre_prefs[i], tags) THEN 2 ELSE 0

\* score(rec) of RecommendTopView.post
Score(rec, seedd, genre_hint, genre_prefs) ==
    LET title == Lower(rec.title)
        artist_name == Lower(rec.name)
        seed_title == Lower(seedd.title)
        tags == LowerAll(rec.tags)
    IN  (IF artist_name # <<>> /\ Lower(seedd.artist) = artist_name THEN 5 ELSE 0)
      + (IF rec.rg # <<>> /\ seedd.rg # <<>> /\ rec.rg[1] = seedd.rg[1] THEN 3 ELSE 0)
      + (IF genre_hint # <<>> /\ InList(genre_hint, tags) THEN 2 ELSE 0)
      + MoodBonus(genre_prefs, tags)
      + (IF genre_hint # <<>> /\ Contains(title, genre_hint) THEN 1 ELSE 0)
      - (IF title = seed_title THEN 10 ELSE 0)

\* insert x behind every element whose score is at least x's (stable, descending)
RECURSIVE InsertRanked(_, _, _, _, _)
InsertRanked(sorted, x, seedd, gh, gp) ==
    IF sorted = <<>> THEN <<x>>
    ELSE IF Score(Head(sorted), seedd, gh, gp) >= Score(x, seedd, gh, gp)
         THEN <<Head(sorted)>> \o InsertRanked(Tail(sorted), x, seedd, gh, gp)
         ELSE <<x>> \o sorted

RECURSIVE SortLoop(_, _, _, _, _)
SortLoop(done, rest, seedd, gh, gp) ==
    IF rest = <<>> THEN done
    ELSE SortLoop(InsertRanked(done, Head(rest), seedd, gh, gp), Tail(rest),
                  seedd, gh, gp)

\* sorted(results, key=score, reverse=True)
Ranked(res, seedd, gh, gp) == SortLoop(<<>>, res, seedd, gh, gp)

\* dict.get(key, 0)
Count(d, k) == IF k \in DOMAIN d THEN d[k] ELSE 0

\* d[key] = d.get(key, 0) + 1
Incr(d, k) == [x \in (DOMAIN d) \cup {k} |-> IF x = k THEN Count(d, k) + 1 ELSE d[x]]

\* a variant that keeps the case of the title
TitleKey_NoLower(rec) == Strip(rec.title)

\* the title key of a candidate: title.strip().lower()
TitleKey(rec) == Lower(Strip(rec.title))

\* artist_credit.get("artist", {}).get("id") or artist_name
ArtistKey(rec) == OrElse(rec.arid, OrElse(rec.name, UnknownArtist))

\* rec["release-group"].get("id") if rec.get("release-group") else None
AlbumId(rec) == IF rec.rg # <<>> THEN rec.rg[1] ELSE <<>>

\* a variant that forgets the titles already accepted
TitleSkipped_NoSeen(rec, seed_title, seen) ==
    \/ Strip(rec.title) = <<>>
    \/ TitleKey(rec) = seed_title

\* rules 1 and 2: empty title, seed title, title already accepted
TitleSkipped(rec, seed_title, seen) ==
    \/ Strip(rec.title) = <<>>
    \/ TitleKey(rec) = seed_title
    \/ TitleKey(rec) \in seen

\* a variant without the cap on the pool
PoolFull_Never(p) == FALSE

\* if len(pool) >= 30: break
PoolFull(p) == Len(p) >= POOL_CAP

\* a variant whose caps are off by one (> for >=)
CapSkipped_OffByOne(rec, ac, alc) ==
    \/ Count(ac, ArtistKey(rec)) > PER_ARTIST
    \/ (AlbumId(rec) # <<>> /\ Count(alc, AlbumId(rec)) > PER_ALBUM)

\* the diversity constraint of the primary pass
CapSkipped(rec, ac, alc) ==
    \/ Count(ac, ArtistKey(rec)) >= PER_ARTIST
    \/ (AlbumId(rec) # <<>> /\ Count(alc, AlbumId(rec)) >= PER_ALBUM)

\* fetch_cover_art(album_id): None without an album id; otherwise the first
\* image of the release group, or None when the archive has none or fails
CoverUrl == <<"h","t","t","p","s",":","/","/","c","a","a","/">>
FetchCoverArt(album_id, art) ==
    IF album_id = <<>> THEN <<>>
    ELSE IF album_id \in art THEN CoverUrl \o album_id ELSE <<>>

PoolEntry(rec, r, art) ==
    [id |-> rec.id,
     title |-> Strip(rec.title),
     artist |-> OrElse(rec.name, UnknownArtist),
     mood |-> OrElse(Mood(r), <<"u","n","k","n","o","w","n">>),
     genre_hint |-> OrElse(GenreHint(r), <<"u","n","k","n","o","w","n">>),
     cover_art |-> FetchCoverArt(AlbumId(rec), art)]

\* a variant that takes the last n elements, pool[-n:]
Take_Last(l, n) == SubSeq(l, (IF Len(l) < n THEN 0 ELSE Len(l) - n) + 1, Len(l))

\* pool[:n]
Take(l, n) == SubSeq(l, 1, IF Len(l) < n THEN Len(l) ELSE n)

\* x[i], x[j] = x[j], x[i]  (positions from 1)
Swap(x, i, j) == [k \in 1..Len(x) |-> IF k = i THEN x[j] ELSE IF k = j THEN x[i] ELSE x[k]]

\* random.shuffle: for i in reversed(range(1, len(x))): j = randbelow(i + 1); swap
\* draws[i] is the value drawn for position i (positions from 0)
RECURSIVE ShuffleLoop(_, _, _)
ShuffleLoop(x, i, draws) ==
    IF i < 1 THEN x ELSE ShuffleLoop(Swap(x, i + 1, draws[i] + 1), i - 1, draws)

Shuffle(x, draws) == ShuffleLoop(x, Len(x) - 1, draws)

\* RecommendedItemSerializer: id, title, artist, mood, genre_hint are required
\* non-blank strings (CharField trims), cover_art may be null
ItemValid(e) ==
    /\ Strip(e.id) # <<>>
    /\ Strip(e.title) # <<>>
    /\ Strip(e.artist) # <<>>
    /\ Strip(e.mood) # <<>>
    /\ Strip(e.genre_hint) # <<>>

E_track_not_found == "Track not found in MusicBrainz"
E_no_recommendations == "No suitable recommendations found"

NotFound(msg) == [status |-> 404, error |-> msg, tracks |-> <<>>]
Success(top) == [status |-> 200, error |-> "", tracks |-> top]
Invalid == [status |-> 400, error |-> "validation", tracks |-> <<>>]
Escaped == [status |-> 500, error |-> "exception", tracks |-> <<>>]
NoResponse == [status |-> 0, error |-> "", tracks |-> <<>>]

----------------------------------------------------------------------------
(* The environment: the external index and the random generator.           *)

MaxCand == 2       \* longest exhaustively enumerated candidate list
LongLen == 34      \* length of the long generated candidate lists
MaxFullDraw == 3   \* shuffle positions up to here draw from their full range
MaxTicks == 2
MaxCalls == 2
MaxErr == 3
MaxTags == 3       \* longest tag list of a directly scored candidate
MaxSeedRecs == 3   \* longest result list of a direct seed resolution

Ok(payload) == [ok |-> TRUE, payload |-> payload, err |-> 0]
Err(e) == [ok |-> FALSE, payload |-> <<>>, err |-> e]

\* the index returns at most `limit` records
Page(list, limit) == Take(list, limit)

\* how the network treats one call of _mb_get
NetChoices == {"ok", "retry_ok", "fail"}
OutsFor(choice, payload) ==
    IF choice = "ok" THEN <<Ok(payload), Ok(payload), Ok(payload)>>
    ELSE IF choice = "retry_ok" THEN <<Err(1), Err(2), Ok(payload)>>
    ELSE <<Err(1), Err(2), Err(3)>>

Mk(id, title, name, arid, rg, tags, releases) ==
    [id |-> id, title |-> title, name |-> name, arid |-> arid, rg |-> rg,
     tags |-> tags, releases |-> releases]

T_hit == <<"H","i","t">>
N_nova == <<"N","o","v","a">>
N_lux == <<"L","u","x">>
A_n1 == <<"n","1">>
A_l1 == <<"l","1">>
RG_g1 == <<"g","1">>
RG_g2 == <<"g","2">>

SeedA == Mk(<<"s","1">>, T_hit, N_nova, A_n1, <<RG_g1>>, <<>>, 2)
SeedB == Mk(<<"s","2">>, <<"H","i","t"," ">>, <<"n","o","v","a"," ">>, <<>>, <<>>, <<>>, 1)
SeedC == Mk(<<"s","3">>, T_hit, N_lux, A_l1, <<RG_g2>>, <<>>, 2)

SeedWorlds == { <<>>, <<SeedA>>, <<SeedB>>, <<SeedB, SeedA, SeedC>> }

K1 == Mk(<<"k","1">>, <<"O","n","e">>, N_nova, A_n1, <<RG_g1>>, <<<<"P","o","p">>>>, 1)
K2 == Mk(<<"k","2">>, <<"O","N","E"," ">>, N_nova, A_n1, <<RG_g1>>, <<>>, 1)
K3 == Mk(<<"k","3">>, <<"T","w","o">>, N_nova, A_n1, <<RG_g1>>, <<G_funk>>, 1)
K4 == Mk(<<"k","4">>, <<"h","i","t">>, N_lux, A_l1, <<RG_g2>>, <<G_pop, G_funk>>, 1)
K5 == Mk(<<"k","5">>, <<"H","i","t"," ">>, N_lux, <<>>, <<>>, <<>>, 1)
K6 == Mk(<<"k","6">>, <<" ">>, N_lux, A_l1, <<RG_g2>>, <<>>, 1)
K7 == Mk(<<"k","7">>, <<"S","i","x">>, <<>>, <<>>, <<<<>>>>, <<G_funk>>, 1)
K8 == Mk(<<"k","8">>, <<"P","o","p","s">>, N_lux, A_l1, <<RG_g2>>, <<>>, 1)

RecPool == {K1, K2, K3, K4, K5, K6, K7, K8}

RECURSIVE SeqsUpTo(_, _)
SeqsUpTo(S, n) ==
    IF n = 0 THEN { <<>> }
    ELSE LET shorter == SeqsUpTo(S, n - 1)
         IN  shorter \cup { Append(l, x) : l \in {m \in shorter : Len(m) = n - 1}, x \in S }

SmallLists == SeqsUpTo(RecPool, MaxCand)

Code2(k) == <<LowerChars[(k \div 26) + 1], LowerChars[(k % 26) + 1]>>

\* generated recording number i of a list whose artists change every ka records
\* and whose release groups change every kg records (kg = 0: no release group)
Gen(i, ka, kg) ==
    Mk(<<"p">> \o Code2(i),
       <<"T">> \o Code2(i),
       IF i \div ka = 0 THEN N_nova ELSE <<"N">> \o Code2(i \div ka),
       IF i \div ka = 0 THEN A_n1 ELSE <<"a">> \o Code2(i \div ka),
       IF kg = 0 THEN <<>>
       ELSE IF i \div kg = 0 THEN <<RG_g1>> ELSE << <<"r">> \o Code2(i \div kg) >>,
       IF i % 3 = 2 THEN <<G_pop>> ELSE <<>>,
       1)

Pattern(n, ka, kg) == [i \in 1..n |-> Gen(i - 1, ka, kg)]

PatternLens == {TOP_N, TOP_N + MaxCand, LongLen}

PatternLists ==
    { Pattern(n, ka, kg) : n \in PatternLens, ka \in {1, 3, FETCH_LIMIT},
                           kg \in {0, 2, FETCH_LIMIT} }

CandLists == SmallLists \cup PatternLists

\* the candidate lists tried with randomize = true
RandLists ==
    { <<>>, <<K1, K3>>, Pattern(LongLen, 1, 0) }

FallbackLists == { <<>>, <<K4, K7, K8>> }

\* release groups the cover-art archive has an image for
ArtGroups == {RG_g1}

NoPrefs == [title |-> T_hit, artist |-> <<>>, genre |-> <<>>, mood |-> <<>>,
            randomize |-> FALSE]
PopPrefs == [title |-> <<"h","i","t">>, artist |-> N_nova, genre |-> <<"P","o","p">>,
             mood |-> <<"H","a","p","p","y">>, randomize |-> FALSE]
RandPrefs == [title |-> T_hit, artist |-> <<>>, genre |-> G_pop, mood |-> <<>>,
              randomize |-> TRUE]

Requests == {NoPrefs, PopPrefs, RandPrefs}

\* values random.shuffle may draw for position i
DrawChoices(i) == IF i <= MaxFullDraw THEN 0..i ELSE {0, i}

RECURSIVE DrawSeqs(_)
DrawSeqs(k) ==
    IF k <= 0 THEN { <<>> }
    ELSE { Append(d, j) : d \in DrawSeqs(k - 1), j \in DrawChoices(k) }

----------------------------------------------------------------------------
(* RecommendTopView.post, one request.                                     *)

NoCall == [fn |-> "", p |-> <<>>, requests |-> 0, key |-> NoKey, wrote |-> FALSE,
           result |-> <<>>, prior |-> <<>>, at |-> 0]
NoMbCall == [outs |-> <<>>, ret |-> [kind |-> "", payload |-> <<>>, err |-> 0,
                                      attempts |-> 0]]

NoScoreCall == [rec |-> <<>>, seedd |-> <<>>, genre |-> <<>>, mood |-> <<>>,
                called |-> FALSE, s |-> 0]
NoSeedCall == [recs |-> <<>>, title |-> <<>>, hint |-> <<>>, called |-> FALSE,
               requests |-> 0, failed |-> FALSE, result |-> <<>>]

\* no direct call of score or of seed resolution is in progress
NoDirectCalls ==
    /\ scoreCall = NoScoreCall
    /\ seedCall = NoSeedCall

EmptyMap == [x \in {} |-> 0]

InitClient ==
    /\ cache = EmptyMap
    /\ now = 0
    /\ ticks = 0
    /\ ncalls = 0
    /\ written = EmptyMap
    /\ lastCall = NoCall
    /\ mbCall = NoMbCall

InitHandler(r, w, start) ==
    /\ pc = start
    /\ req = r
    /\ world = w
    /\ seed_rec = <<>>
    /\ results = <<>>
    /\ ranked = <<>>
    /\ pool = <<>>
    /\ poolIdx = <<>>
    /\ nPrimary = 0
    /\ seen_titles = {}
    /\ artist_count = EmptyMap
    /\ album_count = EmptyMap
    /\ idx = 0
    /\ calls = <<>>
    /\ fbOffset = -1
    /\ response = NoResponse

Worlds ==
    { [seedRecs |-> s, cands |-> c, fallback |-> f, art |-> ArtGroups] :
        s \in SeedWorlds, c \in CandLists, f \in FallbackLists }

Init ==
    /\ InitClient
    /\ NoDirectCalls
    /\ \E r \in Requests, w \in Worlds :
        /\ IF r.randomize
           THEN w.cands \in RandLists /\ w.seedRecs = <<SeedA>>
           ELSE w.fallback = <<>>
        /\ InitHandler(r, w, "resolve")

\* 1) Resolve seed track (views.py 86-97)
ResolveSeed ==
    /\ pc = "resolve"
    /\ \E choice \in NetChoices :
        LET o == SearchTrack(req.title, ArtistHint(req), cache, now,
                             OutsFor(choice, Page(world.seedRecs, 10)))
        IN  /\ cache' = o.cache
            /\ calls' = Append(calls, [fn |-> "search_musicbrainz_track",
                                       failed |-> o.failed])
            /\ IF o.raised
               THEN /\ seed_rec' = <<>>
                    /\ response' = Escaped
                    /\ pc' = "done"
               ELSE /\ seed_rec' = o.result
                    /\ response' = IF o.result = <<>> THEN NotFound(E_track_not_found)
                                   ELSE response
                    /\ pc' = IF o.result = <<>> THEN "done" ELSE "fetch"
    /\ UNCHANGED <<now, ticks, ncalls, written, lastCall, mbCall,
                   scoreCall, seedCall, req, world, results,
                   ranked, pool, poolIdx, nPrimary, seen_titles, artist_count,
                   album_count, idx, fbOffset>>

\* 2) Fetch candidates (views.py 99-107)
FetchCandidates ==
    /\ pc = "fetch"
    /\ \E choice \in NetChoices :
        LET seedd == seed_rec[1]
            outs == OutsFor(choice, Page(world.cands, FETCH_LIMIT))
            byId == seedd.artist_mbid # <<>>
            o == IF byId
                 THEN SearchByArtistMbid(seedd.artist_mbid, seedd.title, FETCH_LIMIT,
                                         cache, now, outs)
                 ELSE SearchByArtist(seedd.artist, seedd.title, FETCH_LIMIT,
                                     cache, now, outs)
        IN  /\ cache' = o.cache
            /\ calls' = Append(calls,
                    [fn |-> IF byId THEN "search_recordings_by_artist_mbid"
                            ELSE "search_recordings_by_artist",
                     failed |-> o.failed])
            /\ results' = o.result
            /\ response' = IF o.raised THEN Escaped ELSE response
            /\ pc' = IF o.raised THEN "done" ELSE "fallback"
    /\ UNCHANGED <<now, ticks, ncalls, written, lastCall, mbCall,
                   scoreCall, seedCall, req, world, seed_rec,
                   ranked, pool, poolIdx, nPrimary, seen_titles, artist_count,
                   album_count, idx, fbOffset>>

\* a variant whose range runs one past the upper end
RandInt_OnePast(a, b) == a..(b + 1)

\* random.randint(a, b): every integer N with a <= N <= b
RandInt(a, b) == a..b

\* Optional randomized pagination fallback (views.py 109-114)
Fallback ==
    /\ pc = "fallback"
    /\ IF Len(results) < FALLBACK_BELOW /\ req.randomize
       THEN \E offset \in RandInt(0, MAX_OFFSET), choice \in NetChoices :
              LET o == SearchRecordings(req.title, FETCH_LIMIT, offset, cache, now,
                          OutsFor(choice, Page(world.fallback, FETCH_LIMIT)))
              IN  /\ cache' = o.cache
                  /\ results' = results \o o.result
                  /\ calls' = Append(calls, [fn |-> "search_musicbrainz_recordings",
                                             failed |-> o.failed])
                  /\ fbOffset' = offset
                  /\ response' = IF o.raised THEN Escaped ELSE response
                  /\ pc' = IF o.raised THEN "done" ELSE "rank"
       ELSE /\ pc' = "rank"
            /\ UNCHANGED <<cache, results, calls, fbOffset, response>>
    /\ UNCHANGED <<now, ticks, ncalls, written, lastCall, mbCall,
                   scoreCall, seedCall, req, world, seed_rec,
                   ranked, pool, poolIdx, nPrimary, seen_titles, artist_count,
                   album_count, idx>>

\* 3) Scoring and ranking (views.py 116-159)
Rank ==
    /\ pc = "rank"
    /\ ranked' = Ranked(results, seed_rec[1], GenreHint(req), MoodGenreMap(Mood(req)))
    /\ pc' = IF results = <<>> THEN "respond" ELSE "primary"
    /\ idx' = 1
    /\ UNCHANGED <<cache, now, ticks, ncalls, written, lastCall, mbCall,
                   scoreCall, seedCall, req, world,
                   seed_rec, results, pool, poolIdx, nPrimary, seen_titles,
                   artist_count, album_count, calls, fbOffset, response>>

\* 4) One iteration of the primary pass (views.py 161-204)
PrimaryStep ==
    /\ pc = "primary"
    /\ LET rec == ranked[idx]
           seed_title == Lower(seed_rec[1].title)
           accept == /\ ~TitleSkipped(rec, seed_title, seen_titles)
                     /\ ~CapSkipped(rec, artist_count, album_count)
           newPool == IF accept THEN Append(pool, PoolEntry(rec, req, world.art))
                      ELSE pool
           ends == (accept /\ PoolFull(newPool)) \/ idx = Len(ranked)
       IN  /\ pool' = newPool
           /\ poolIdx' = IF accept THEN Append(poolIdx, idx) ELSE poolIdx
           /\ nPrimary' = Len(newPool)
           /\ seen_titles' = IF accept THEN seen_titles \cup {TitleKey(rec)}
                             ELSE seen_titles
           /\ artist_count' = IF accept THEN Incr(artist_count, ArtistKey(rec))
                              ELSE artist_count
           /\ album_count' = IF accept /\ AlbumId(rec) # <<>>
                             THEN Incr(album_count, AlbumId(rec)) ELSE album_count
           /\ idx' = IF ends THEN 1 ELSE idx + 1
           /\ pc' = IF ~ends THEN "primary"
                    ELSE IF Len(newPool) < TOP_N THEN "relax" ELSE "respond"
    /\ UNCHANGED <<cache, now, ticks, ncalls, written, lastCall, mbCall,
                   scoreCall, seedCall, req, world,
                   seed_rec, results, ranked, calls, fbOffset, response>>

\* One iteration of the relaxation pass (views.py 206-238)
RelaxStep ==
    /\ pc = "relax"
    /\ LET rec == ranked[idx]
           seed_title == Lower(seed_rec[1].title)
           accept == ~TitleSkipped(rec, seed_title, seen_titles)
           newPool == IF accept THEN Append(pool, PoolEntry(rec, req, world.art))
                      ELSE pool
           ends == Len(newPool) >= TOP_N \/ idx = Len(ranked)
       IN  /\ pool' = newPool
           /\ poolIdx' = IF accept THEN Append(poolIdx, idx) ELSE poolIdx
           /\ seen_titles' = IF accept THEN seen_titles \cup {TitleKey(rec)}
                             ELSE seen_titles
           /\ idx' = IF ends THEN 1 ELSE idx + 1
           /\ pc' = IF ends THEN "respond" ELSE "relax"
    /\ UNCHANGED <<cache, now, ticks, ncalls, written, lastCall, mbCall,
                   scoreCall, seedCall, req, world,
                   seed_rec, results, ranked, nPrimary, artist_count, album_count,
                   calls, fbOffset, response>>

\* what the serializer makes of the selection (views.py 256-260)
Validate(top) ==
    IF \A i \in 1..Len(top) : ItemValid(top[i]) THEN Success(top) ELSE Invalid

\* 404 on an empty pool, else 5) the selection (views.py 240-260)
Respond ==
    /\ pc = "respond"
    /\ IF pool = <<>>
       THEN /\ response' = NotFound(E_no_recommendations)
            /\ UNCHANGED <<pool, poolIdx>>
       ELSE IF req.randomize
       THEN \E draws \in DrawSeqs((IF Len(pool) > SHUFFLE_WINDOW THEN SHUFFLE_WINDOW
                                   ELSE Len(pool)) - 1) :
              LET n == Len(draws) + 1
                  perm == Shuffle([i \in 1..n |-> i], draws)
                  candidate_pool == [i \in 1..n |-> pool[perm[i]]]
              IN  /\ response' = Validate(Take(candidate_pool, TOP_N))
                  \* pool[:10] is a copy; a pool of at most 10 is shuffled in place
                  /\ pool' = IF Len(pool) > SHUFFLE_WINDOW THEN pool ELSE candidate_pool
                  /\ poolIdx' = IF Len(pool) > SHUFFLE_WINDOW THEN poolIdx
                                ELSE [i \in 1..n |-> poolIdx[perm[i]]]
       ELSE /\ response' = Validate(Take(pool, TOP_N))
            /\ UNCHANGED <<pool, poolIdx>>
    /\ pc' = "done"
    /\ UNCHANGED <<cache, now, ticks, ncalls, written, lastCall, mbCall,
                   scoreCall, seedCall, req, world,
                   seed_rec, results, ranked, nPrimary, seen_titles, artist_count,
                   album_count, idx, calls, fbOffset>>

Next ==
    \/ ResolveSeed
    \/ FetchCandidates
    \/ Fallback
    \/ Rank
    \/ PrimaryStep
    \/ RelaxStep
    \/ Respond

Spec == Init /\ [][Next]_vars

----------------------------------------------------------------------------
(* Direct calls of the search client against a shared cache, with the      *)
(* clock advancing between them.                                            *)

Params(fn, title, artist, query, limit, offset) ==
    [fn |-> fn, title |-> title, artist |-> artist, query |-> query,
     limit |-> limit, offset |-> offset]

TrackParams ==
    { Params("track", <<"a","|","b">>, <<>>, <<>>, 0, 0),
      Params("track", <<"a">>, <<"b","|">>, <<>>, 0, 0),
      Params("track", <<"a">>, <<>>, <<>>, 0, 0) }

RecordingsParams ==
    { Params("recordings", <<>>, <<>>, <<"x">>, 1, 23),
      Params("recordings", <<>>, <<>>, <<"x">>, 12, 3),
      Params("recordings", <<>>, <<>>, <<"3",":","x">>, 12, 0) }

ClientPayloads == { <<>>, <<SeedA>>, <<SeedC>> }

IdleWorld == [seedRecs |-> <<>>, cands |-> <<>>, fallback |-> <<>>, art |-> {}]

InitCalls ==
    /\ InitClient
    /\ NoDirectCalls
    /\ InitHandler(NoPrefs, IdleWorld, "idle")

\* the history of a call: what it was asked, what it did, and the last write
\* (result and time) of an earlier call with the same parameters
Called(p, o) ==
    [fn |-> p.fn, p |-> p, requests |-> o.requests, key |-> o.key,
     wrote |-> o.wrote, result |-> o.result,
     prior |-> IF p \in DOMAIN written THEN <<written[p]>> ELSE <<>>,
     at |-> now]

Record(p, o) ==
    IF o.wrote
    THEN [x \in (DOMAIN written) \cup {p} |->
            IF x = p THEN [result |-> o.result, at |-> now, key |-> o.key]
            ELSE written[x]]
    ELSE written

CallTrack ==
    /\ ncalls < MaxCalls
    /\ \E p \in TrackParams, choice \in NetChoices, payload \in ClientPayloads :
        LET o == SearchTrack(p.title, p.artist, cache, now, OutsFor(choice, payload))
        IN  /\ cache' = o.cache
            /\ lastCall' = Called(p, o)
            /\ written' = Record(p, o)
    /\ ncalls' = ncalls + 1
    /\ UNCHANGED <<now, ticks, mbCall, scoreCall, seedCall>>
    /\ UNCHANGED handlerVars

CallRecordings ==
    /\ ncalls < MaxCalls
    /\ \E p \in RecordingsParams, choice \in NetChoices, payload \in ClientPayloads :
        LET o == SearchRecordings(p.query, p.limit, p.offset, cache, now,
                                  OutsFor(choice, Page(payload, p.limit)))
        IN  /\ cache' = o.cache
            /\ lastCall' = Called(p, o)
            /\ written' = Record(p, o)
    /\ ncalls' = ncalls + 1
    /\ UNCHANGED <<now, ticks, mbCall, scoreCall, seedCall>>
    /\ UNCHANGED handlerVars

\* time passes: a second, or all but a second of the TTL
Tick ==
    /\ ticks < MaxTicks
    /\ \E d \in {1, CACHE_TTL - 1} : now' = now + d
    /\ ticks' = ticks + 1
    /\ UNCHANGED <<cache, ncalls, written, lastCall, mbCall, scoreCall, seedCall>>
    /\ UNCHANGED handlerVars

NextCalls == CallTrack \/ CallRecordings \/ Tick

SpecClient == InitCalls /\ [][NextCalls]_vars

----------------------------------------------------------------------------
(* Direct calls of _mb_get against every pattern of attempt outcomes.      *)

RetryOutcomes == { Ok(<<>>), Ok(<<SeedA>>) } \cup { Err(e) : e \in 1..MaxErr }

MbGetCall ==
    /\ \E outs \in [1..(RETRIES + 1) -> RetryOutcomes] :
          mbCall' = [outs |-> outs, ret |-> MbGet(outs)]
    /\ UNCHANGED <<scoreCall, seedCall>>
    /\ UNCHANGED clientVars
    /\ UNCHANGED handlerVars

NextRetry == MbGetCall

SpecRetry == InitCalls /\ [][NextRetry]_vars

----------------------------------------------------------------------------
(* Direct calls of score(rec) for one candidate, seed and preferences.     *)

ScoreTags == {G_pop, G_funk, G_rock, <<"P","o","p">>}
ScoreTagLists == SeqsUpTo(ScoreTags, MaxTags)

ScoreRecs ==
    { Mk(<<"c","1">>, title, name, <<>>, rg, tags, 1) :
        title \in {T_hit, <<"P","o","p"," ","s","o","n","g">>},
        name \in {N_nova, <<>>},
        rg \in {<<>>, <<RG_g1>>},
        tags \in ScoreTagLists }

ScoreSeeds == {SeedResult(SeedA), SeedResult(SeedC)}
ScoreGenres == {<<>>, <<"P","o","p">>, G_rock, G_funk}
ScoreMoods == {<<>>, <<"H","a","p","p","y">>, M_angry, <<"z","e","n">>}

InitScore ==
    /\ InitClient
    /\ InitHandler(NoPrefs, IdleWorld, "idle")
    /\ seedCall = NoSeedCall
    /\ \E rec \in ScoreRecs, seedd \in ScoreSeeds, g \in ScoreGenres, m \in ScoreMoods :
          scoreCall = [rec |-> <<rec>>, seedd |-> <<seedd>>, genre |-> g, mood |-> m,
                       called |-> FALSE, s |-> 0]

\* score(rec) with the preferences read as the handler reads them
ScoreCall ==
    /\ ~scoreCall.called
    /\ scoreCall' = [scoreCall EXCEPT
                        !.called = TRUE,
                        !.s = Score(scoreCall.rec[1], scoreCall.seedd[1],
                                    GenreHint(scoreCall),
                                    MoodGenreMap(Mood(scoreCall)))]
    /\ UNCHANGED <<mbCall, seedCall>>
    /\ UNCHANGED clientVars
    /\ UNCHANGED handlerVars

NextScore == ScoreCall

SpecScore == InitScore /\ [][NextScore]_vars

----------------------------------------------------------------------------
(* Direct calls of search_musicbrainz_track against one result list.       *)

SeedNames == {N_nova, <<"n","o","v","a"," ">>, N_lux}
SeedReleases == {0, 1, 2}

\* the record at position i of a result list: its id tells the position
SeedRecAt(i, name, releases) ==
    Mk(<<"s", Digits[i + 1]>>, T_hit, name, <<>>, <<>>, <<>>, releases)

RECURSIVE SeedListsOfLen(_)
SeedListsOfLen(n) ==
    IF n = 0 THEN { <<>> }
    ELSE { Append(l, SeedRecAt(n, name, k)) :
             l \in SeedListsOfLen(n - 1), name \in SeedNames, k \in SeedReleases }

SeedLists == UNION { SeedListsOfLen(n) : n \in 0..MaxSeedRecs }

SeedHints == {<<>>, <<"N","O","V","A">>, <<"l","u","x"," ">>, <<"z","e","d">>}

InitSeed ==
    /\ InitClient
    /\ InitHandler(NoPrefs, IdleWorld, "idle")
    /\ scoreCall = NoScoreCall
    /\ \E recs \in SeedLists, hint \in SeedHints :
          seedCall = [recs |-> recs, title |-> T_hit, hint |-> hint, called |-> FALSE,
                      requests |-> 0, failed |-> FALSE, result |-> <<>>]

\* search_musicbrainz_track(title, artist_hint) against an index that holds recs
SeedCall ==
    /\ ~seedCall.called
    /\ \E choice \in NetChoices :
        LET o == SearchTrack(seedCall.title, seedCall.hint, cache, now,
                             OutsFor(choice, Page(seedCall.recs, 10)))
        IN  /\ cache' = o.cache
            /\ seedCall' = [seedCall EXCEPT !.called = TRUE,
                                            !.requests = o.requests,
                                            !.failed = o.failed,
                                            !.result = o.result]
    /\ UNCHANGED <<now, ticks, ncalls, written, lastCall, mbCall, scoreCall>>
    /\ UNCHANGED handlerVars

NextSeed == SeedCall

SpecSeed == InitSeed /\ [][NextSeed]_vars

----------------------------------------------------------------------------
(* Properties of the handler, checked under Spec.                          *)

Min(a, b) == IF a < b THEN a ELSE b

NoDupTitles(entries, seedd) ==
    /\ \A i, j \in 1..Len(entries) :
          i # j => Lower(entries[i].title) # Lower(entries[j].title)
    /\ \A i \in 1..Len(entries) : Lower(entries[i].title) # Lower(seedd.title)

\* C1: at every point of pool construction and in the response, no two pool
\* entries have the same case-insensitive title and none has the seed's
\* case-insensitive title.
C1_NoDuplicateTitles ==
    seed_rec # <<>> =>
        /\ NoDupTitles(pool, seed_rec[1])
        /\ NoDupTitles(response.tracks, seed_rec[1])

\* a finished request whose ranked list held a repeated title or the seed's
\* title, with the relaxation pass run and a track returned
C1_Witness ==
    /\ pc = "done"
    /\ response.status = 200
    /\ nPrimary < TOP_N
    /\ \E i \in 1..Len(ranked) :
          /\ Strip(ranked[i].title) # <<>>
          /\ \/ Lower(Strip(ranked[i].title)) = Lower(seed_rec[1].title)
             \/ \E j \in 1..(i - 1) :
                   Lower(Strip(ranked[j].title)) = Lower(Strip(ranked[i].title))

\* the source records of the entries the primary pass accepted
PrimaryRecs == [i \in 1..nPrimary |-> ranked[poolIdx[i]]]

ArtistKeyOf(rec) ==
    IF rec.arid # <<>> THEN rec.arid
    ELSE IF rec.name # <<>> THEN rec.name ELSE UnknownArtist

\* C2: after the primary pass no artist-grouping key and no release-group
\* identifier has more than 2 accepted entries.
C2_PrimaryCaps ==
    pc \in {"primary", "relax", "respond"} =>
        \A i \in 1..nPrimary :
            /\ Cardinality({j \in 1..nPrimary :
                   ArtistKeyOf(PrimaryRecs[j]) = ArtistKeyOf(PrimaryRecs[i])}) <= 2
            /\ (PrimaryRecs[i].rg # <<>> /\ PrimaryRecs[i].rg[1] # <<>>) =>
                 Cardinality({j \in 1..nPrimary :
                     /\ PrimaryRecs[j].rg # <<>>
                     /\ PrimaryRecs[j].rg[1] = PrimaryRecs[i].rg[1]}) <= 2

\* all candidates share one artist and one release group, and their titles
\* are pairwise distinct and differ from the seed's
OneArtistOneAlbum ==
    /\ ranked # <<>>
    /\ \A i \in 1..Len(ranked) :
          /\ ArtistKeyOf(ranked[i]) = ArtistKeyOf(ranked[1])
          /\ ranked[i].name = ranked[1].name
          /\ ranked[i].rg # <<>> /\ ranked[i].rg[1] # <<>>
          /\ ranked[i].rg = ranked[1].rg
          /\ Strip(ranked[i].title) # <<>>
          /\ Lower(Strip(ranked[i].title)) # Lower(Strip(seed_rec[1].title))
    /\ \A i, j \in 1..Len(ranked) :
          i # j => Lower(Strip(ranked[i].title)) # Lower(Strip(ranked[j].title))

\* 5 candidates of one artist and one album: the primary pass took 2
C2_Witness ==
    /\ pc = "relax"
    /\ idx = 1
    /\ Len(ranked) = 5
    /\ OneArtistOneAlbum
    /\ nPrimary = 2

\* C3: the pool never holds more than 30 entries and a successful response
\* holds at most 5 tracks, with randomize true or false.
C3_PoolAndResponseBounded ==
    /\ Len(pool) <= 30
    /\ response.status = 200 => Len(response.tracks) <= 5

\* more than 30 acceptable candidates: the pool stopped at 30, 5 were returned
C3_Witness ==
    /\ pc = "done"
    /\ req.randomize
    /\ Len(ranked) > 30
    /\ Len(pool) = 30
    /\ response.status = 200
    /\ Len(response.tracks) = 5

\* C4: candidates that all share artist and release group, with distinct
\* titles and randomize false, give at most 3 recommended tracks.
C4_OneAlbumAtMostThree ==
    (/\ pc = "done"
     /\ ~req.randomize
     /\ response.status = 200
     /\ OneArtistOneAlbum)
    => Len(response.tracks) <= 3

\* C7: when seed resolution yields no record (empty recordings list, or every
\* attempt of the fetch failed) the request ends not-found, no exception
\* escapes and no further search call is made.
C7_SeedNotFoundStops ==
    (/\ pc # "resolve"
     /\ \/ seed_rec = <<>>
        \/ world.seedRecs = <<>>
        \/ calls[1].failed)
    => /\ pc = "done"
       /\ seed_rec = <<>>
       /\ response.status = 404
       /\ response.error = E_track_not_found
       /\ Len(calls) = 1
       /\ calls[1].fn = "search_musicbrainz_track"
       /\ results = <<>>
       /\ fbOffset = -1

\* the index holds the track, but every attempt of the seed fetch failed
C7_Witness ==
    /\ pc = "done"
    /\ world.seedRecs # <<>>
    /\ calls # <<>>
    /\ calls[1].failed
    /\ response.status = 404

FirstOfPool ==
    /\ Len(response.tracks) = Min(5, Len(pool))
    /\ \A i \in 1..Len(response.tracks) : response.tracks[i] = pool[i]

\* C8 as stated: with randomize false the response is the first min(5, pool
\* size) pool elements and is rank-preserving for every candidate list.
C8_RankPreserving ==
    (pc = "done" /\ ~req.randomize /\ response.status = 200) =>
        /\ FirstOfPool
        /\ \A i, j \in 1..Len(response.tracks) :
              i < j => poolIdx[i] < poolIdx[j]

\* C8 amended: with randomize false the response is the first min(5, pool
\* size) pool elements; two returned tracks accepted by the same pass are in
\* ranked order, and every track the relaxation pass added follows every
\* track of the primary pass.
C8_RankPreservingPerPass ==
    (pc = "done" /\ ~req.randomize /\ response.status = 200) =>
        /\ FirstOfPool
        /\ \A i, j \in 1..Len(response.tracks) :
              (i < j /\ (i <= nPrimary <=> j <= nPrimary)) => poolIdx[i] < poolIdx[j]
        /\ nPrimary >= Len(response.tracks) =>
              \A i, j \in 1..Len(response.tracks) : i < j => poolIdx[i] < poolIdx[j]

\* a response holding two primary-pass tracks and two relaxation tracks
C8_Witness ==
    /\ pc = "done"
    /\ ~req.randomize
    /\ response.status = 200
    /\ nPrimary >= 2
    /\ Len(response.tracks) >= nPrimary + 2

\* distinct non-empty titles of the ranked list other than the seed's,
\* compared case-insensitively as they stand
LiteralTitles ==
    { Lower(ranked[i].title) : i \in 1..Len(ranked) }
        \ { <<>>, Lower(seed_rec[1].title) }

\* the same after stripping the candidates' surrounding whitespace
StrippedTitles ==
    { Lower(Strip(ranked[i].title)) : i \in 1..Len(ranked) }
        \ { <<>>, Lower(seed_rec[1].title) }

AfterBothPasses == pc \in {"respond", "done"} /\ seed_rec # <<>> /\ response.status # 500

\* C9 as stated: when the primary pass accepted fewer than 5, the final pool
\* size is min(5, number of distinct non-empty non-seed case-insensitive
\* titles), and the request fails not-found exactly when that number is 0.
C9_RelaxedPoolSize ==
    (AfterBothPasses /\ nPrimary < 5) =>
        /\ Len(pool) = Min(5, Cardinality(LiteralTitles))
        /\ pc = "done" => (response.status = 404 <=> Cardinality(LiteralTitles) = 0)

\* C9 amended: the same with candidate titles compared after stripping their
\* surrounding whitespace and lowercasing, against the seed's lowercased title.
C9_RelaxedPoolSizeStripped ==
    (AfterBothPasses /\ nPrimary < 5) =>
        /\ Len(pool) = Min(5, Cardinality(StrippedTitles))
        /\ pc = "done" => (response.status = 404 <=> Cardinality(StrippedTitles) = 0)

\* the caps held the primary pass below 5 and the relaxation pass filled the
\* pool to 5 from a list with more than 5 distinct titles
C9_Witness ==
    /\ pc = "done"
    /\ 0 < nPrimary /\ nPrimary < 5
    /\ Len(pool) = 5
    /\ Cardinality(StrippedTitles) > 5

\* the fallback queries among the search calls made so far
FallbackCalls(cs) == {i \in 1..Len(cs) : cs[i].fn = "search_musicbrainz_recordings"}

\* C11: the fallback query is issued exactly when the primary artist query
\* returned fewer than 10 results and randomize is true, at most once per
\* request, and its pagination offset lies in [0, 200): 0 <= offset <= 199.
C11_FallbackOnceOffsetBelow200 ==
    [][pc = "fallback" =>
          /\ (Len(results) < 10 /\ req.randomize)
                <=> FallbackCalls(calls') # FallbackCalls(calls)
          /\ Cardinality(FallbackCalls(calls')) <= 1
          /\ FallbackCalls(calls') # {} => (0 <= fbOffset' /\ fbOffset' <= 199)
          /\ FallbackCalls(calls') = {} => fbOffset' = -1]_vars

\* C11 amended: the same with the offset in the closed range [0, 200]:
\* 0 <= offset <= 200.
C11_FallbackOnceOffsetUpTo200 ==
    [][pc = "fallback" =>
          /\ (Len(results) < 10 /\ req.randomize)
                <=> FallbackCalls(calls') # FallbackCalls(calls)
          /\ Cardinality(FallbackCalls(calls')) <= 1
          /\ FallbackCalls(calls') # {} => (0 <= fbOffset' /\ fbOffset' <= 200)
          /\ FallbackCalls(calls') = {} => fbOffset' = -1]_vars

\* a randomized request whose artist query returned fewer than 10 results:
\* the fallback query was issued once, at offset 200
C11_Witness ==
    /\ pc = "rank"
    /\ req.randomize
    /\ Cardinality(FallbackCalls(calls)) = 1
    /\ Len(calls) = 3
    /\ fbOffset = 200

----------------------------------------------------------------------------
(* Properties of score, checked under SpecScore.                           *)

ScoredTags == [i \in 1..Len(scoreCall.rec[1].tags) |-> Lower(scoreCall.rec[1].tags[i])]

\* the genre hint is among the candidate's tags
HintInTags ==
    /\ scoreCall.genre # <<>>
    /\ \E i \in 1..Len(ScoredTags) : ScoredTags[i] = Lower(scoreCall.genre)

\* the genres mapped from the mood that are among the candidate's tags
MoodGenresInTags ==
    LET gs == MoodGenreMap(Lower(scoreCall.mood))
    IN  { gs[i] : i \in {k \in 1..Len(gs) : \E j \in 1..Len(ScoredTags) :
                                                ScoredTags[j] = gs[k]} }

\* the weights that do not come from the tags: same artist, same release
\* group, genre keyword in the title, duplicate of the seed's title
OtherWeights ==
    LET rec == scoreCall.rec[1]
        seedd == scoreCall.seedd[1]
        g == Lower(scoreCall.genre)
    IN  (IF rec.name # <<>> /\ Lower(rec.name) = Lower(seedd.artist) THEN 5 ELSE 0)
      + (IF rec.rg # <<>> /\ seedd.rg # <<>> /\ rec.rg[1] = seedd.rg[1] THEN 3 ELSE 0)
      + (IF g # <<>> /\ \E i \in 0..(Len(rec.title) - Len(g)) :
                            Lower(SubSeq(rec.title, i + 1, i + Len(g))) = g
         THEN 1 ELSE 0)
      - (IF Lower(rec.title) = Lower(seedd.title) THEN 10 ELSE 0)

\* what the tags contributed to the score
TagPart == scoreCall.s - OtherWeights

\* C12 as stated: the mood +2 and the genre-hint +2 are not additive: tags
\* holding the genre hint, a mood-mapped genre, or both give +2 in total, and
\* several matching mood-mapped genres give a single +2.
C12_TagBonusNotAdditive ==
    scoreCall.called =>
        TagPart = IF HintInTags \/ MoodGenresInTags # {} THEN 2 ELSE 0

\* C12 amended: the two bonuses are additive: +2 when the genre hint is among
\* the tags, plus +2 when at least one mood-mapped genre is among the tags
\* (a single +2 however many match), so +4 when both hold.
C12_TagBonusesAdditive ==
    scoreCall.called =>
        TagPart = (IF HintInTags THEN 2 ELSE 0)
                + (IF MoodGenresInTags # {} THEN 2 ELSE 0)

\* a scored candidate whose tags hold the genre hint and two genres mapped
\* from the mood, the hint not being one of them
C12_Witness ==
    /\ scoreCall.called
    /\ HintInTags
    /\ Cardinality(MoodGenresInTags) >= 2
    /\ Lower(scoreCall.genre) \notin MoodGenresInTags
    /\ TagPart = 4

----------------------------------------------------------------------------
(* Properties of seed resolution, checked under SpecSeed.                  *)

\* positions of the result list whose artist name equals the hint, case
\* aside; name and hint as the function reads them, without the whitespace
\* around them
HintMatches ==
    { i \in 1..Len(seedCall.recs) :
        Lower(Strip(seedCall.recs[i].name)) = Lower(Strip(seedCall.hint)) }

\* the positions seed resolution chooses among
Eligible ==
    IF Strip(seedCall.hint) # <<>> /\ HintMatches # {}
    THEN HintMatches
    ELSE 1..Len(seedCall.recs)

\* the seed call fetched a non-empty result list
ResolvedFromList ==
    /\ seedCall.called
    /\ ~seedCall.failed
    /\ seedCall.requests > 0
    /\ seedCall.recs # <<>>

----------------------------------------------------------------------------
(* Properties of the search client, checked under SpecClient and SpecRetry. *)

\* C5: once a call has fetched and written its result to the cache, every
\* later call with the same parameters before the TTL elapses makes no
\* network request and returns the result that was written.
C5_CacheHitWithinTtl ==
    (/\ lastCall.fn # ""
     /\ lastCall.prior # <<>>
     /\ lastCall.at < lastCall.prior[1].at + 900)
    => /\ lastCall.requests = 0
       /\ lastCall.result = lastCall.prior[1].result

\* C6: one call of _mb_get makes at most 3 attempts, stops at the first
\* attempt that succeeds and returns its payload, and raises only when all 3
\* attempts raised, the error being the last attempt's.
C6_RetryPolicy ==
    mbCall.outs # <<>> =>
        LET outs == mbCall.outs
            ret == mbCall.ret
            oks == {i \in 1..3 : outs[i].ok}
        IN  /\ ret.attempts \in 1..3
            /\ oks # {} =>
                 /\ ret.kind = "return"
                 /\ ret.attempts \in oks
                 /\ \A i \in oks : ret.attempts <= i
                 /\ ret.payload = outs[ret.attempts].payload
            /\ oks = {} =>
                 /\ ret.kind = "raise"
                 /\ ret.attempts = 3
                 /\ ret.err = outs[3].err

\* all three attempts raised, the first and the last a different error
C6_Witness ==
    /\ mbCall.outs # <<>>
    /\ mbCall.ret.kind = "raise"
    /\ mbCall.outs[1].err # mbCall.outs[3].err

\* the search query a call's parameters stand for
QueryOf(p) ==
    IF p.fn = "track" THEN SeedQuery(Strip(p.title), Strip(p.artist)) ELSE p.query

\* C10: calls that stand for different queries (seed resolution), or that
\* differ in query, limit or offset (recordings search), never hash the same
\* raw key string, and a seed key never equals a recordings key.
C10_DistinctQueriesDistinctKeys ==
    lastCall.fn # "" =>
        \A p \in DOMAIN written :
            LET q == lastCall.p
            IN  /\ (p.fn = "track" /\ q.fn = "track" /\ QueryOf(p) # QueryOf(q))
                      => written[p].key.digest # lastCall.key.digest
                /\ (p.fn = "recordings" /\ q.fn = "recordings" /\ p # q)
                      => written[p].key.digest # lastCall.key.digest
                /\ p.fn # q.fn => written[p].key # lastCall.key

====
